---- MODULE Spec2Model ----
(***************************************************************************)
(* Taxonomy normalisation (canon / Taxonomy.from_csv / Taxonomy.normalize) *)
(* and detection de-duplication (_nms) of the AWS diagram auto-labelling   *)
(* pipelines.                                                              *)
(*                                                                         *)
(* A Python str is a sequence of one-character strings.  Two characters    *)
(* that SANY cannot lex are written as tokens: "ENDASH" (U+2013) and       *)
(* "EMDASH" (U+2014).  A confidence is an integer number of hundredths     *)
(* (1.0 is 100); a fuzzy score is an integer in 0..100.                    *)
(***************************************************************************)
EXTENDS Integers, Sequences, FiniteSets, TLC

VARIABLES
    cText,      \* canon: the argument text
    cWhich,     \* canon: "mapper" (canon.py) or "cv" (Taxonomy.canon)
    cOut,       \* canon: canon(cText)
    cOut2,      \* canon: canon(cOut)
    cStage,     \* canon: "start" | "called" | "again"
    nDets,      \* _nms: the detections handed to the de-duplication
    nThr,       \* _nms: iou_threshold, in hundredths
    nOut,       \* _nms: the de-duplicated detections
    nOut2,      \* _nms: the de-duplication of nOut
    nOrder,     \* _nms: the order argsort gave for the scores of nDets
    nKeep,      \* _nms: keep, the indices of nDets that were kept
    nRest,      \* _nms: order, the indices the while loop has still to pick
    nGone,      \* _nms: the indices the loop has dropped from order unpicked
    nIter,      \* _nms: the passes of the while loop so far
    nStage,     \* _nms: "start" | "called" | "again", or within one call
                \*       "enter" | "loop" | "returned"
    tRows,      \* from_csv: the rows of the CSV
    tRules,     \* from_csv: the rule files (group_map, blacklist, aliases)
    tax,        \* the Taxonomy from_csv returned
    rPipe,      \* normalize: "cv" (aws_cv_clip) or "llm" (aws_llm_autolabel)
    rText,      \* normalize: the argument s
    rScores,    \* normalize: fuzz.WRatio of the key against each alias key
    rOut,       \* normalize: the returned pair, and the return taken
    rStage,     \* normalize: "built" | "called" | "accessed"
    aCall,      \* Taxonomy: the method last called, and its argument
    aOut,       \* Taxonomy: what that call returned
    sCfg,       \* analyze_image: config (weights, accept_score, iou_nms, ocr)
    sImg,       \* analyze_image: the image size [W, H]
    sIcons,     \* analyze_image: self.icons, the service name of each icon
    sDets,      \* analyze_image: detections
    sLast,      \* analyze_image: the region last looked at and what came of it
    sStage,     \* analyze_image: "loop" | "done"
    lCfg,       \* llm: config (mode, conf_threshold in hundredths)
    lImg,       \* llm: the image size [W, H]
    lDets,      \* llm: detections
    lLast,      \* llm: the object or box last looked at and what came of it
    lStage      \* llm: "loop" | "done"

canonVars == <<cText, cWhich, cOut, cOut2, cStage>>
nmsVars == <<nDets, nThr, nOut, nOut2, nOrder, nKeep, nRest, nGone, nIter,
             nStage>>
taxVars == <<tRows, tRules, tax>>
resolveVars == <<rPipe, rText, rScores, rOut, rStage, aCall, aOut>>
scoreVars == <<sCfg, sImg, sIcons, sDets, sLast, sStage>>
llmVars == <<lCfg, lImg, lDets, lLast, lStage>>
vars == <<canonVars, nmsVars, taxVars, resolveVars, scoreVars, llmVars>>

-----------------------------------------------------------------------------
(* Characters *)

UPPER == <<"A","B","C","D","E","F","G","H","I","J","K","L","M",
           "N","O","P","Q","R","S","T","U","V","W","X","Y","Z">>
LOWER == <<"a","b","c","d","e","f","g","h","i","j","k","l","m",
           "n","o","p","q","r","s","t","u","v","w","x","y","z">>

\* str.lower() of one character
LowerChar(c) ==
    IF \E i \in DOMAIN UPPER : UPPER[i] = c
    THEN LOWER[CHOOSE i \in DOMAIN UPPER : UPPER[i] = c]
    ELSE c

\* str.lower()
Lower(t) == [i \in 1..Len(t) |-> LowerChar(t[i])]

\* the characters the regex class \s and str.strip() treat as whitespace
IsWS(c) == c \in {" ", "\t", "\n"}

RECURSIVE LStrip(_)
LStrip(t) == IF t # <<>> /\ IsWS(Head(t)) THEN LStrip(Tail(t)) ELSE t

RECURSIVE RStrip(_)
RStrip(t) ==
    IF t # <<>> /\ IsWS(t[Len(t)]) THEN RStrip(SubSeq(t, 1, Len(t) - 1)) ELSE t

\* str.strip()
Strip(t) == RStrip(LStrip(t))

RECURSIVE Cat(_)
Cat(ss) == IF ss = <<>> THEN <<>> ELSE Head(ss) \o Cat(Tail(ss))

-----------------------------------------------------------------------------
(* canon *)

\* RE_PARENS = r"\(.*?\)": from a "(" at the head of t, the index of the
\* first ")" that no newline precedes ("." does not match "\n"); 0 if none
ParenClose(t) ==
    LET ends == {j \in 2..Len(t) :
                    /\ t[j] = ")"
                    /\ \A k \in 2..(j - 1) : t[k] # "\n"}
    IN  IF ends = {} THEN 0 ELSE CHOOSE j \in ends : \A k \in ends : j <= k

\* RE_PARENS.sub("", text): leftmost non-overlapping lazy matches removed
RECURSIVE SubParens(_)
SubParens(t) ==
    IF t = <<>> THEN <<>>
    ELSE IF Head(t) = "(" /\ ParenClose(t) # 0
         THEN SubParens(SubSeq(t, ParenClose(t) + 1, Len(t)))
         ELSE <<Head(t)>> \o SubParens(Tail(t))

AMAZON == <<"a","m","a","z","o","n">>
AWS == <<"a","w","s">>

\* t starts with word w, ignoring case (flags=re.I)
StartsWithCI(t, w) ==
    Len(t) >= Len(w) /\ \A i \in 1..Len(w) : LowerChar(t[i]) = w[i]

\* the length of the (amazon|aws) alternative matched at ^, 0 if none
PrefixWordLen(t) ==
    IF StartsWithCI(t, AMAZON) THEN Len(AMAZON)
    ELSE IF StartsWithCI(t, AWS) THEN Len(AWS)
    ELSE 0

\* re.sub(r"^(amazon|aws)\s+", "", t, flags=re.I)
StripPrefix(t) ==
    LET n == PrefixWordLen(t)
    IN  IF n > 0 /\ Len(t) > n /\ IsWS(t[n + 1])
        THEN LStrip(SubSeq(t, n + 1, Len(t)))
        ELSE t

\* t.replace("&","and").replace(en dash,"-").replace(em dash,"-")
ReplaceSpecial(t) ==
    Cat([i \in 1..Len(t) |->
            IF t[i] = "&" THEN <<"a","n","d">>
            ELSE IF t[i] \in {"ENDASH", "EMDASH"} THEN <<"-">>
            ELSE <<t[i]>>])

\* t.replace("-"," ").replace("_"," ").replace("/"," ")
ReplaceSeparators(t) ==
    [i \in 1..Len(t) |-> IF t[i] \in {"-", "_", "/"} THEN " " ELSE t[i]]

\* [w for w in re.split(r"\s+", t) if w]
RECURSIVE SplitWS(_, _)
SplitWS(t, cur) ==
    IF t = <<>> THEN (IF cur = <<>> THEN <<>> ELSE <<cur>>)
    ELSE IF IsWS(Head(t))
         THEN (IF cur = <<>> THEN <<>> ELSE <<cur>>) \o SplitWS(Tail(t), <<>>)
         ELSE SplitWS(Tail(t), Append(cur, Head(t)))

Tokens(t) == SplitWS(t, <<>>)

W_service == <<"s","e","r","v","i","c","e">>
W_services == <<"s","e","r","v","i","c","e","s">>
W_family == <<"f","a","m","i","l","y">>
W_product == <<"p","r","o","d","u","c","t">>
W_products == <<"p","r","o","d","u","c","t","s">>

\* canon.py line 6
DROP_WORDS_MAPPER == {W_service, W_services, W_family}
\* a Taxonomy stopword set without "family"
DROP_WORDS_NoFamily == {W_service, W_services, W_product, W_products}

\* taxonomy.py line 12
DROP_WORDS == {W_service, W_services, W_family, W_product, W_products}

\* compares the token as written: w not in DROP_WORDS
KeepToken_NoLower(w, drop) == w \notin drop

\* w.lower() not in DROP_WORDS
KeepToken(w, drop) == Lower(w) \notin drop

RECURSIVE DropTokens(_, _)
DropTokens(ws, drop) ==
    IF ws = <<>> THEN <<>>
    ELSE IF KeepToken(Head(ws), drop)
         THEN <<Head(ws)>> \o DropTokens(Tail(ws), drop)
         ELSE DropTokens(Tail(ws), drop)

\* " ".join(tokens)
RECURSIVE Join(_)
Join(ws) ==
    IF ws = <<>> THEN <<>>
    ELSE IF Len(ws) = 1 THEN Head(ws)
    ELSE Head(ws) \o <<" ">> \o Join(Tail(ws))

\* RE_MULTI_WS.sub(" ", t): every run of whitespace becomes one space
RECURSIVE CollapseWS(_)
CollapseWS(t) ==
    IF t = <<>> THEN <<>>
    ELSE IF IsWS(Head(t))
         THEN <<" ">> \o CollapseWS(LStrip(t))
         ELSE <<Head(t)>> \o CollapseWS(Tail(t))

\* the steps of canon after the prefix is stripped (lines 12-18 of canon.py)
CanonTail(t, drop) ==
    LET t1 == ReplaceSeparators(ReplaceSpecial(t))
        tokens == DropTokens(Tokens(t1), drop)
    IN  Lower(Strip(CollapseWS(Join(tokens))))

\* canon of a str with the given stopword set
CanonWith(text, drop) == CanonTail(StripPrefix(SubParens(text)), drop)

\* aws_service_mapper.canon.canon
canon(text) == CanonWith(text, DROP_WORDS_MAPPER)

\* Taxonomy.canon
Taxonomy_canon(text) == CanonWith(text, DROP_WORDS)

CanonOf(which, text) ==
    IF which = "mapper" THEN canon(text) ELSE Taxonomy_canon(text)

-----------------------------------------------------------------------------
(* Inputs of the canon specification *)

MaxPieces == 4

W_s3 == <<"s","3">>
W_AWS == <<"A","W","S">>

Pieces == {AWS, W_AWS, W_service, W_s3, <<" ">>, <<"(">>, <<")">>,
           <<"-">>, <<"&">>}

RECURSIVE PieceStrings(_)
PieceStrings(n) ==
    IF n = 0 THEN {<<>>}
    ELSE LET shorter == PieceStrings(n - 1)
         IN  shorter \cup {p \o s : p \in Pieces, s \in shorter}

W_Amazon == <<"A","m","a","z","o","n">>
W_Elastic == <<"E","l","a","s","t","i","c">>
W_Compute == <<"C","o","m","p","u","t","e">>
W_Cloud == <<"C","l","o","u","d">>
W_EC2p == <<"(","E","C","2",")">>
W_Service == <<"S","e","r","v","i","c","e">>
SP == <<" ">>

\* "Amazon Elastic Compute Cloud (EC2) Service"
EC2Text ==
    Cat(<<W_Amazon, SP, W_Elastic, SP, W_Compute, SP, W_Cloud, SP, W_EC2p,
          SP, W_Service>>)

W_S3 == <<"S","3">>
W_Standard == <<"S","t","a","n","d","a","r","d">>
W_tier == <<"t","i","e","r">>

\* "Amazon S3 ((Standard) tier)"
NestedText ==
    Cat(<<W_Amazon, SP, W_S3, SP, <<"(", "(">>, W_Standard, <<")">>, SP,
          W_tier, <<")">>>>)

\* "S3 (Standard" newline "tier)"
TwoLineText ==
    Cat(<<W_S3, SP, <<"(">>, W_Standard, <<"\n">>, W_tier, <<")">>>>)

W_Product == <<"P","r","o","d","u","c","t">>
W_Products == <<"P","r","o","d","u","c","t","s">>
W_Family == <<"F","a","m","i","l","y">>

\* "AWS Product Family"
ProductFamilyText == Cat(<<W_AWS, SP, W_Product, SP, W_Family>>)

\* "s3-Products (service)"
ProductsText == Cat(<<W_s3, <<"-">>, W_Products, SP, <<"(">>, W_service, <<")">>>>)

\* "S3 Family"
FamilyText == Cat(<<W_S3, SP, W_Family>>)

CanonInputs ==
    PieceStrings(MaxPieces)
        \cup {EC2Text, NestedText, TwoLineText,
              ProductFamilyText, ProductsText, FamilyText}

-----------------------------------------------------------------------------
(* Detections and _nms *)

\* iou > iou_threshold for boxes a, b = [x, y, w, h], as _nms computes it:
\* corners x2 = x + w, y2 = y + h, areas and intersection with + 1, and
\* iou = inter / (area_a + area_b - inter + 1e-6).  With thr hundredths,
\* iou <= thr/100 iff 100 * inter <= thr * union + thr * 1e-6, and as both
\* products are integers and 0 <= thr * 1e-6 < 1 that is
\* 100 * inter <= thr * union.
Max2(a, b) == IF a >= b THEN a ELSE b
Min2(a, b) == IF a <= b THEN a ELSE b

BoxArea(a) == ((a[1] + a[3]) - a[1] + 1) * ((a[2] + a[4]) - a[2] + 1)

Inter(a, b) ==
    LET xx1 == Max2(a[1], b[1])
        yy1 == Max2(a[2], b[2])
        xx2 == Min2(a[1] + a[3], b[1] + b[3])
        yy2 == Min2(a[2] + a[4], b[2] + b[4])
        w == Max2(0, xx2 - xx1 + 1)
        h == Max2(0, yy2 - yy1 + 1)
    IN  w * h

\* a comparison that lets every box stay
IouLeq_Always(a, b, thr) == TRUE

IouLeq_Strict(a, b, thr) ==
    100 * Inter(a, b) < thr * (BoxArea(a) + BoxArea(b) - Inter(a, b))

\* iou <= iou_threshold (line 269)
IouLeq(a, b, thr) ==
    100 * Inter(a, b) <= thr * (BoxArea(a) + BoxArea(b) - Inter(a, b))

Perms(n) ==
    {p \in [1..n -> 1..n] : \A i, j \in 1..n : p[i] = p[j] => i = j}

\* scores = np.array([d.confidence for d in detections])
Scores(dets) == [i \in 1..Len(dets) |-> dets[i].confidence]

\* scores.argsort()[::-1]: numpy's default sort is not stable, so which
\* order equal scores come out in depends on the build: any order of the
\* indices with the scores descending, the same one whenever the scores are
\* the same
ArgsortDesc_NoReverse(dets) ==
    {p \in Perms(Len(dets)) :
        \A i, j \in 1..Len(dets) :
            i < j => dets[p[i]].confidence <= dets[p[j]].confidence}

ArgsortDesc(dets) ==
    {p \in Perms(Len(dets)) :
        \A i, j \in 1..Len(dets) :
            i < j => dets[p[i]].confidence >= dets[p[j]].confidence}

\* a pass that leaves nothing in order
Remaining_DropsAll(dets, thr, order) == <<>>

\* a pass that filters the whole of order, the picked index included
Remaining_KeepsPicked(dets, thr, order) ==
    SelectSeq(order,
              LAMBDA j : IouLeq(dets[Head(order)].bbox, dets[j].bbox, thr))

\* order = order[inds + 1] (lines 259-270): of the indices behind the picked
\* one, order[0], those whose iou with it is <= iou_threshold
Remaining(dets, thr, order) ==
    SelectSeq(Tail(order),
              LAMBDA j : IouLeq(dets[Head(order)].bbox, dets[j].bbox, thr))

\* the indices behind the picked one that the pass leaves out of order
Suppressed(dets, thr, order) ==
    SelectSeq(Tail(order),
              LAMBDA j : ~IouLeq(dets[Head(order)].bbox, dets[j].bbox, thr))

\* the while loop of _nms: the kept indices
RECURSIVE NmsLoop(_, _, _, _)
NmsLoop(dets, thr, order, keep) ==
    IF order = <<>> THEN keep
    ELSE NmsLoop(dets, thr, Remaining(dets, thr, order),
                 Append(keep, Head(order)))

\* keep when _nms returns ([] for no detections, line 240)
Keep(dets, thr, order) ==
    IF dets = <<>> THEN <<>> ELSE NmsLoop(dets, thr, order, <<>>)

\* AWSDiagramAutoLabeler._nms, with the order argsort gave
Nms(dets, thr, order) ==
    LET keep == Keep(dets, thr, order)
    IN  [k \in 1..Len(keep) |-> dets[keep[k]]]

RECURSIVE InsertByConf_Ascending(_, _)
InsertByConf_Ascending(sorted, d) ==
    IF sorted = <<>> THEN <<d>>
    ELSE IF Head(sorted).confidence <= d.confidence
         THEN <<Head(sorted)>> \o InsertByConf_Ascending(Tail(sorted), d)
         ELSE <<d>> \o sorted

\* sorted(detections, key=lambda d: -d.confidence): a stable sort
RECURSIVE InsertByConf(_, _)
InsertByConf(sorted, d) ==
    IF sorted = <<>> THEN <<d>>
    ELSE IF Head(sorted).confidence >= d.confidence
         THEN <<Head(sorted)>> \o InsertByConf(Tail(sorted), d)
         ELSE <<d>> \o sorted

RECURSIVE SortedByConf(_)
SortedByConf(dets) ==
    IF dets = <<>> THEN <<>>
    ELSE InsertByConf(SortedByConf(SubSeq(dets, 1, Len(dets) - 1)),
                      dets[Len(dets)])

\* analyze_image lines 355-358: de-duplicate, then sort by confidence
Deduplicate(dets, thr, order) ==
    IF dets = <<>> THEN dets ELSE SortedByConf(Nms(dets, thr, order))

-----------------------------------------------------------------------------
(* Inputs of the _nms specification *)

MaxDets == 3

NmsBoxes == {<<0, 0, 2, 2>>, <<1, 1, 2, 2>>,
             <<0, 0, 100, 100>>, <<10, 10, 100, 100>>}
NmsConfs == {60, 90}
NmsThresholds == {0, 45, 100}

Detections ==
    [bbox : NmsBoxes, label : {"Amazon S3"}, confidence : NmsConfs]

DetectionSeqs == UNION {[1..n -> Detections] : n \in 0..MaxDets}

-----------------------------------------------------------------------------
(* Python dicts: the items in insertion order *)

DictKeys(d) == [i \in 1..Len(d) |-> d[i].k]
DictHas(d, k) == \E i \in 1..Len(d) : d[i].k = k
DictGet(d, k) == d[CHOOSE i \in 1..Len(d) : d[i].k = k].v

\* d[k] = v: an existing key keeps its place
DictSet(d, k, v) ==
    IF DictHas(d, k)
    THEN [i \in 1..Len(d) |-> IF d[i].k = k THEN [k |-> k, v |-> v] ELSE d[i]]
    ELSE Append(d, [k |-> k, v |-> v])

-----------------------------------------------------------------------------
(* Taxonomy.from_csv *)

\* a missing cell, as pandas reads it
NaN == <<"NaN">>

\* str(cell)
Str(cell) == IF cell = NaN THEN <<"n","a","n">> ELSE cell

\* str.split("|")
RECURSIVE SplitOn(_, _, _)
SplitOn(t, sep, cur) ==
    IF t = <<>> THEN <<cur>>
    ELSE IF Head(t) = sep THEN <<cur>> \o SplitOn(Tail(t), sep, <<>>)
    ELSE SplitOn(Tail(t), sep, Append(cur, Head(t)))

\* [a.strip() for a in str(cell).split("|") if a.strip()]
AliasesOf(cell) ==
    LET parts == SplitOn(Str(cell), "|", <<>>)
        stripped == [i \in 1..Len(parts) |-> Strip(parts[i])]
    IN  SelectSeq(stripped, LAMBDA a : a # <<>>)

\* list(set(xs)): each member once.  The order a set iterates in is not
\* specified; every key of one row maps to the same canonical name, so the
\* order of first occurrence stands for all of them.
RECURSIVE Unique(_, _)
Unique(xs, seen) ==
    IF xs = <<>> THEN seen
    ELSE IF \E i \in 1..Len(seen) : seen[i] = Head(xs)
         THEN Unique(Tail(xs), seen)
         ELSE Unique(Tail(xs), Append(seen, Head(xs)))

\* a2c[k.lower()] = canon for every k of keys
RECURSIVE RegisterKeys(_, _, _)
RegisterKeys(a2c, keys, name) ==
    IF keys = <<>> THEN a2c
    ELSE RegisterKeys(DictSet(a2c, Lower(Head(keys)), name), Tail(keys), name)

\* one pass of the loop over df.iterrows() (taxonomy.py lines 47-55)
RowStep(st, row) ==
    LET name == Strip(Str(row.name))
        aliases == IF row.aliases # NaN THEN AliasesOf(row.aliases) ELSE <<>>
        keys == Unique(<<name>> \o aliases, <<>>)
    IN  [c2a |-> DictSet(st.c2a, name, keys),
         a2c |-> RegisterKeys(st.a2c, keys, name)]

RECURSIVE RowsLoop(_, _)
RowsLoop(st, rows) ==
    IF rows = <<>> THEN st ELSE RowsLoop(RowStep(st, Head(rows)), Tail(rows))

\* an alias rule that registers no alias key
AliasRuleStep_NoKey(st, item) ==
    [c2a |-> IF DictHas(st.c2a, item.v)
             THEN DictSet(st.c2a, item.v, Append(DictGet(st.c2a, item.v), item.k))
             ELSE DictSet(st.c2a, item.v, <<item.v, item.k>>),
     a2c |-> st.a2c]

\* one pass of the loop over aliases.items() (lines 86-91)
AliasRuleStep(st, item) ==
    [c2a |-> IF DictHas(st.c2a, item.v)
             THEN DictSet(st.c2a, item.v, Append(DictGet(st.c2a, item.v), item.k))
             ELSE DictSet(st.c2a, item.v, <<item.v, item.k>>),
     a2c |-> DictSet(st.a2c, Lower(item.k), item.v)]

RECURSIVE AliasRulesLoop(_, _)
AliasRulesLoop(st, items) ==
    IF items = <<>> THEN st
    ELSE AliasRulesLoop(AliasRuleStep(st, Head(items)), Tail(items))

NoRules == [group_map |-> <<>>, blacklist |-> <<>>, aliases |-> <<>>]

\* aws_cv_clip Taxonomy.from_csv; rules_dir None or a missing file is the
\* empty table
FromCsv(rows, rules) ==
    LET st == AliasRulesLoop(RowsLoop([c2a |-> <<>>, a2c |-> <<>>], rows),
                             rules.aliases)
    IN  [canonical_to_aliases |-> st.c2a,
         alias_to_canonical |-> st.a2c,
         names |-> DictKeys(st.c2a),
         group_mapping |-> rules.group_map,
         blacklist |-> rules.blacklist]

\* aws_llm_autolabel Taxonomy.from_csv: the same loop, no rule files
FromCsvLlm(rows) ==
    LET st == RowsLoop([c2a |-> <<>>, a2c |-> <<>>], rows)
    IN  [canonical_to_aliases |-> st.c2a,
         alias_to_canonical |-> st.a2c,
         names |-> DictKeys(st.c2a),
         group_mapping |-> <<>>,
         blacklist |-> <<>>]

-----------------------------------------------------------------------------
(* Taxonomy.normalize *)

\* b in key
IsSubstr(b, key) ==
    \E i \in 0..(Len(key) - Len(b)) : SubSeq(key, i + 1, i + Len(b)) = b

\* Taxonomy.contains_blacklist
contains_blacklist(t, text) ==
    LET key == Taxonomy_canon(text)
    IN  \E i \in 1..Len(t.blacklist) : IsSubstr(t.blacklist[i], key)

\* The values fuzz.WRatio(q, c) can take (rapidfuzz, no processor): 0 when
\* either string is empty, 100 when they are equal, and below 100 otherwise:
\* the plain ratio is 100 for equal strings only, and the token and partial
\* ratios are scaled by 0.95 and 0.9.
ScoreLevels == {0, 90}

WRatioValues(q, c) ==
    IF q = <<>> \/ c = <<>> THEN {0}
    ELSE IF q = c THEN {100}
    ELSE ScoreLevels

\* the scores WRatio can give the query against each choice
ScoreFns(q, choices) ==
    {f \in [1..Len(choices) -> ScoreLevels \cup {100}] :
        \A i \in 1..Len(choices) : f[i] \in WRatioValues(q, choices[i])}

\* process.extractOne(key, choices, scorer=fuzz.WRatio): the index of the
\* first choice with the highest score, 0 (None) for no choices
ExtractOne(choices, scores) ==
    IF choices = <<>> THEN 0
    ELSE CHOOSE i \in 1..Len(choices) :
            /\ \A j \in 1..Len(choices) : scores[j] <= scores[i]
            /\ \A j \in 1..(i - 1) : scores[j] < scores[i]

\* a fuzzy branch that returns the score as it is
ToConf_NoDivide(sc) == sc * 100

\* a fuzzy branch that returns 1.0 like the exact branches
ToConf_One(sc) == 100

\* sc/100.0, in hundredths
ToConf(sc) == (sc * 100) \div 100

\* a returned pair, with the tier (return statement) that produced it
Ret(name, conf, tier) == [name |-> name, conf |-> conf, tier |-> tier]

\* the call ends in an exception instead of a return
Raised == [name |-> <<>>, conf |-> 0, tier |-> -1]

\* d[k], a KeyError when k is no key of d
GetOrRaise(d, k, conf, tier) ==
    IF DictHas(d, k) THEN Ret(DictGet(d, k), conf, tier) ELSE Raised

\* the exact lookups of the cv normalize, the raw text tried first
ExactLookup_RawFirst(t, s) ==
    LET key == Taxonomy_canon(s)
        original_key == Lower(Strip(s))
        a2c == t.alias_to_canonical
    IN  IF DictHas(a2c, original_key) THEN Ret(DictGet(a2c, original_key), 100, 3)
        ELSE IF DictHas(a2c, key) THEN Ret(DictGet(a2c, key), 100, 2)
        ELSE Ret(<<>>, 0, 0)

\* taxonomy.py lines 188-195: the canonical key, then the raw text; tier 0
\* when neither is an alias key
ExactLookup(t, s) ==
    LET key == Taxonomy_canon(s)
        original_key == Lower(Strip(s))
        a2c == t.alias_to_canonical
    IN  IF DictHas(a2c, key) THEN Ret(DictGet(a2c, key), 100, 2)
        ELSE IF DictHas(a2c, original_key) THEN Ret(DictGet(a2c, original_key), 100, 3)
        ELSE Ret(<<>>, 0, 0)

\* aws_cv_clip Taxonomy.normalize; wr and wr2 are the WRatio scores of the
\* key against the alias keys and against the names
Normalize(t, s, wr, wr2) ==
    LET key == Taxonomy_canon(s)
        a2c == t.alias_to_canonical
        exact == ExactLookup(t, s)
        best == ExtractOne(DictKeys(a2c), wr)
        best2 == ExtractOne(t.names, wr2)
    IN  IF s = <<>> THEN Ret(<<>>, 0, 1)
        ELSE IF exact.tier # 0 THEN exact
        ELSE IF best # 0 THEN GetOrRaise(a2c, DictKeys(a2c)[best], ToConf(wr[best]), 4)
        ELSE IF best2 # 0 THEN Ret(t.names[best2], ToConf(wr2[best2]), 5)
        ELSE IF contains_blacklist(t, s) THEN Ret(<<>>, 0, 6)
        ELSE Ret(s, 0, 7)

\* aws_llm_autolabel Taxonomy.normalize
NormalizeLlm(t, s, wr, wr2) ==
    LET key == Lower(Strip(s))
        a2c == t.alias_to_canonical
        best == ExtractOne(DictKeys(a2c), wr)
        best2 == ExtractOne(t.names, wr2)
    IN  IF DictHas(a2c, key) THEN Ret(DictGet(a2c, key), 100, 3)
        ELSE IF best # 0 THEN GetOrRaise(a2c, DictKeys(a2c)[best], ToConf(wr[best]), 4)
        ELSE IF best2 # 0 THEN Ret(t.names[best2], ToConf(wr2[best2]), 5)
        ELSE Ret(s, 0, 7)

\* the key each pipeline's normalize hands to extractOne
FuzzyKey(pipe, s) == IF pipe = "cv" THEN Taxonomy_canon(s) ELSE Lower(Strip(s))

-----------------------------------------------------------------------------
(* The other methods of the aws_cv_clip Taxonomy: what each returns, and the
   Taxonomy it leaves behind (none of them assigns to a field of self) *)

Returned(result, self) == [result |-> result, self |-> self]

\* self.canonical_to_aliases.setdefault(canonical, [])
get_aliases_SetDefault(t, canonical) ==
    IF DictHas(t.canonical_to_aliases, canonical)
    THEN Returned(DictGet(t.canonical_to_aliases, canonical), t)
    ELSE Returned(<<>>, [t EXCEPT !.canonical_to_aliases =
                                      DictSet(@, canonical, <<>>)])

\* self.canonical_to_aliases.get(canonical, [])
get_aliases(t, canonical) ==
    IF DictHas(t.canonical_to_aliases, canonical)
    THEN Returned(DictGet(t.canonical_to_aliases, canonical), t)
    ELSE Returned(<<>>, t)

\* self.alias_to_canonical.get(alias.lower()); None is "None"
get_canonical(t, alias) ==
    IF DictHas(t.alias_to_canonical, Lower(alias))
    THEN Returned(DictGet(t.alias_to_canonical, Lower(alias)), t)
    ELSE Returned("None", t)

\* self.group_mapping.get(normalized, normalized) of the stripped group
normalize_group(t, group) ==
    IF group = <<>> THEN Returned(<<>>, t)
    ELSE IF DictHas(t.group_mapping, Strip(group))
         THEN Returned(DictGet(t.group_mapping, Strip(group)), t)
         ELSE Returned(Strip(group), t)

TaxonomyMethods ==
    {"canon", "contains_blacklist", "normalize_group", "get_aliases",
     "get_canonical"}

MethodCall(t, m, arg) ==
    CASE m = "canon" -> Returned(Taxonomy_canon(arg), t)
      [] m = "contains_blacklist" -> Returned(contains_blacklist(t, arg), t)
      [] m = "normalize_group" -> normalize_group(t, arg)
      [] m = "get_aliases" -> get_aliases(t, arg)
      [] m = "get_canonical" -> get_canonical(t, arg)

-----------------------------------------------------------------------------
(* Inputs of the taxonomy specification *)

MaxRows == 2

T_AmazonS3 == Cat(<<W_Amazon, SP, W_S3>>)
T_amazon_s3 == Lower(T_AmazonS3)
T_EC2 == <<"E","C","2">>
T_AmazonEC2 == Cat(<<W_Amazon, SP, T_EC2>>)
T_EC2_or_S3 == Cat(<<T_EC2, <<"|">>, SP, W_S3, SP>>)
T_S3_bucket == Cat(<<W_S3, SP, <<"b","u","c","k","e","t">>>>)
T_logo == <<"l","o","g","o">>
T_S3_logo == Cat(<<W_S3, SP, T_logo>>)
T_S3_padded == Cat(<<SP, W_s3, SP>>)
T_Lambda == <<"L","a","m","b","d","a">>
T_AWSLambda == Cat(<<W_AWS, SP, T_Lambda>>)
T_nan == <<"n","a","n">>

RowPool ==
    { [name |-> T_AmazonS3, aliases |-> W_S3],
      [name |-> T_AmazonS3, aliases |-> NaN],
      [name |-> W_S3, aliases |-> NaN],
      [name |-> T_AmazonEC2, aliases |-> T_EC2_or_S3],
      [name |-> NaN, aliases |-> NaN] }

RowSeqs == UNION {[1..n -> RowPool] : n \in 0..MaxRows}

RulesPool ==
    [group_map : {<<>>},
     blacklist : {<<>>, <<T_logo>>},
     aliases : {<<>>,
                <<[k |-> T_S3_bucket, v |-> T_AmazonS3]>>,
                <<[k |-> T_Lambda, v |-> T_AWSLambda]>>}]

AccessorArgs == {<<>>, T_AmazonS3, T_S3_padded, T_S3_logo}

Queries ==
    {<<>>, T_AmazonS3, T_amazon_s3, W_S3, T_S3_padded, T_S3_bucket, T_logo,
     T_S3_logo, T_AmazonEC2, T_EC2, T_Lambda, T_AWSLambda, T_nan}

-----------------------------------------------------------------------------
(* AWSDiagramAutoLabeler.analyze_image: the scoring of one proposed region.
   Scores, weights and thresholds are in hundredths; their products, as
   final_score, in ten-thousandths.  The products and sums are taken
   exactly. *)

\* the results normalize can give for s, over the scores WRatio can give
NormalizeOutcomes(t, s) ==
    {Normalize(t, s, wr, wr2) :
        wr \in ScoreFns(Taxonomy_canon(s), DictKeys(t.alias_to_canonical)),
        wr2 \in ScoreFns(Taxonomy_canon(s), t.names)}

\* ocr_score = 0.2 if (txt and len(txt) <= 12) else 0.0
OCR_BONUS == 20
OCR_MAX_LEN == 12

\* _calculate_scores: inner is D[0] in fiftieths, so that (D[0] + 1) / 2 is
\* inner + 50 hundredths; orb is what orb_score returned; txtLen is the
\* length of what ocr_text returned
CalculateScores(cfg, reg) ==
    IF ~reg.feat2 \/ reg.hits = 0 THEN <<0, 0, 0>>
    ELSE <<reg.inner + 50,
           reg.orb,
           IF cfg.ocr_enabled /\ reg.txtLen > 0 /\ reg.txtLen <= OCR_MAX_LEN
           THEN OCR_BONUS ELSE 0>>

\* the weighted sum (lines 333-337), in ten-thousandths
FinalScore(cfg, sc) ==
    cfg.score_clip_w * sc[1] + cfg.score_orb_w * sc[2] + cfg.score_ocr_w * sc[3]

Accepted_Always(cfg, final_score) == TRUE

Accepted_Strict(cfg, final_score) == final_score > cfg.accept_score * 100

\* the filter of line 340 lets the region through
Accepted(cfg, final_score) == ~(final_score < cfg.accept_score * 100)

\* final_score * 0.7 + nsc * 0.3, in hundred-thousandths
Blend_NoWeights(final_score, nsc) == 10 * final_score + 1000 * nsc

Blend_Swapped(final_score, nsc) == 3 * final_score + 700 * nsc

Blend(final_score, nsc) == 7 * final_score + 300 * nsc

\* round(v, 4) of v hundred-thousandths, in ten-thousandths.  A value half
\* way between two results goes where its float lies, which the decimal
\* value does not tell.
Round4(v) ==
    IF v % 10 < 5 THEN {v \div 10}
    ELSE IF v % 10 > 5 THEN {v \div 10 + 1}
    ELSE {v \div 10, v \div 10 + 1}

\* x1 - x0 < 24 or y1 - y0 < 24
MIN_SIDE == 24

\* x0, y0, x1, y1 = max(0, x), max(0, y), min(W, x + w), min(H, y + h)
Clip(img, box) ==
    <<Max2(0, box[1]), Max2(0, box[2]),
      Min2(img[1], box[1] + box[3]), Min2(img[2], box[2] + box[4])>>

\* self.icons[best_i] for best_i < len(self.icons): a negative index counts
\* from the end
IconAt(icons, best_i) ==
    IF best_i >= 0 THEN icons[best_i + 1] ELSE icons[Len(icons) + best_i + 1]

\* what one pass of the loop over boxes comes to (lines 298-353): whether
\* scoring was reached, its numbers, and the detection appended, if any
NoDetection(scored, final_score) ==
    [scored |-> scored, final_score |-> final_score, nsc |-> 0, blend |-> 0,
     det |-> <<>>]

RegionOutcomes(t, cfg, img, icons, reg) ==
    LET c == Clip(img, reg.box)
        final_score == FinalScore(cfg, CalculateScores(cfg, reg))
    IN  IF c[3] - c[1] < MIN_SIDE \/ c[4] - c[2] < MIN_SIDE
        THEN {NoDetection(FALSE, 0)}
        ELSE IF ~reg.feat \/ reg.hits = 0 \/ reg.best_i >= Len(icons)
        THEN {NoDetection(FALSE, 0)}
        ELSE IF ~Accepted(cfg, final_score)
        THEN {NoDetection(TRUE, final_score)}
        ELSE UNION {
               {[scored |-> TRUE, final_score |-> final_score,
                 nsc |-> n.conf, blend |-> Blend(final_score, n.conf),
                 det |-> <<[bbox |-> <<c[1], c[2], c[3] - c[1], c[4] - c[2]>>,
                            label |-> n.name,
                            confidence |-> conf]>>] :
                   conf \in Round4(Blend(final_score, n.conf))} :
               n \in NormalizeOutcomes(t, IconAt(icons, reg.best_i))}

-----------------------------------------------------------------------------
(* AWSLLMAutoLabeler: what the model reported is turned into detections.
   Confidences are in hundredths, the numbers of a reported bbox in tenths. *)

NormalizeLlmOutcomes(t, s) ==
    {NormalizeLlm(t, s, wr, wr2) :
        wr \in ScoreFns(Lower(Strip(s)), DictKeys(t.alias_to_canonical)),
        wr2 \in ScoreFns(Lower(Strip(s)), t.names)}

\* int(v): towards zero
IntOf(v) == IF v >= 0 THEN v \div 10 ELSE -((-v) \div 10)

LlmBox_NoFloor(img, bbox) ==
    LET x == Max2(0, Min2(IntOf(bbox[1]), img[1]))
        y == Max2(0, Min2(IntOf(bbox[2]), img[2]))
    IN  <<x, y, Min2(IntOf(bbox[3]), img[1] - x),
                Min2(IntOf(bbox[4]), img[2] - y)>>

\* the bbox of _normalize_detection (lines 147-151)
LlmBox(img, bbox) ==
    LET x == Max2(0, Min2(IntOf(bbox[1]), img[1]))
        y == Max2(0, Min2(IntOf(bbox[2]), img[2]))
        w == Max2(1, Min2(IntOf(bbox[3]), img[1] - x))
        h == Max2(1, Min2(IntOf(bbox[4]), img[2] - y))
    IN  <<x, y, w, h>>

\* round(v, 4) and round(v, 3) of v hundredths, in hundredths: a value of
\* two decimal places has nothing to round away
Round4OfHundredths(v) == (v * 100) \div 100
Round3OfHundredths(v) == (v * 10) \div 10

LlmResult(kind, reported, tscore, det) ==
    [kind |-> kind, reported |-> reported, tscore |-> tscore, det |-> det]

\* _normalize_detection: None, an exception (x, y, w, h = bbox of another
\* length), or a DetectionResult
NormalizeDetection(t, cfg, img, obj) ==
    IF obj.confidence < cfg.conf_threshold
    THEN {LlmResult("none", obj.confidence, 0, <<>>)}
    ELSE IF Len(obj.bbox) # 4
    THEN {LlmResult("raised", obj.confidence, 0, <<>>)}
    ELSE {LlmResult("det", obj.confidence, n.conf,
                    <<[bbox |-> LlmBox(img, obj.bbox),
                       label |-> n.name,
                       confidence |-> Round4OfHundredths(
                                         Min2(obj.confidence, n.conf))]>>) :
             n \in NormalizeLlmOutcomes(t, Strip(obj.name))}

\* range(0, stop, step)
PyRange(stop, step) == {k * step : k \in 0..((stop - 1) \div step)}

WIN == 96
STRIDE == 64

\* sliding_windows(h, w)
SlidingWindows(img) ==
    {<<x, y, WIN, WIN>> :
        x \in PyRange(Max2(1, img[1] - WIN), STRIDE),
        y \in PyRange(Max2(1, img[2] - WIN), STRIDE)}

MIN_AREA == 800
MAX_AREA == 50000

\* contour_proposals: found are the boxes cv2.boundingRect gave for the
\* contours, of which those of an area within the limits are kept
ContourProposals(found) ==
    {b \in found : MIN_AREA <= b[3] * b[4] /\ b[3] * b[4] <= MAX_AREA}

\* propose_regions
ProposeRegions(img, found) == SlidingWindows(img) \cup ContourProposals(found)

\* best_label, best_score after the loop over candidates (lines 233-238);
\* None is the empty label
RECURSIVE PatchBest(_, _, _)
PatchBest(t, cands, best) ==
    IF cands = <<>> THEN {best}
    ELSE UNION {PatchBest(t, Tail(cands),
                          IF n.conf > best.score
                          THEN [label |-> n.name, score |-> n.conf]
                          ELSE best) :
                   n \in NormalizeLlmOutcomes(t, Head(cands))}

\* if best_label and best_score >= 0.5
PATCH_ACCEPT == 50

\* one pass of the loop over boxes of _analyze_patch_llm
PatchOutcomes(t, box, cands) ==
    {IF best.label # <<>> /\ best.score >= PATCH_ACCEPT
     THEN LlmResult("det", best.score, best.score,
                    <<[bbox |-> box, label |-> best.label,
                       confidence |-> Round3OfHundredths(best.score)]>>)
     ELSE LlmResult("none", best.score, best.score, <<>>) :
        best \in PatchBest(t, cands, [label |-> <<>>, score |-> 0])}

-----------------------------------------------------------------------------
(* Inputs of the analyze_image specification *)

MaxRegions == 2

\* config: the defaults of the class (lines 66-83) and other weights that
\* sum to 1.0, with other thresholds
ScoreConfigs ==
    { [score_clip_w |-> 60, score_orb_w |-> 30, score_ocr_w |-> 10,
       accept_score |-> 50, ocr_enabled |-> TRUE, iou_nms |-> 45],
      [score_clip_w |-> 100, score_orb_w |-> 0, score_ocr_w |-> 0,
       accept_score |-> 50, ocr_enabled |-> FALSE, iou_nms |-> 45],
      [score_clip_w |-> 50, score_orb_w |-> 50, score_ocr_w |-> 0,
       accept_score |-> 100, ocr_enabled |-> FALSE, iou_nms |-> 45],
      [score_clip_w |-> 55, score_orb_w |-> 45, score_ocr_w |-> 0,
       accept_score |-> 30, ocr_enabled |-> TRUE, iou_nms |-> 45],
      [score_clip_w |-> 0, score_orb_w |-> 0, score_ocr_w |-> 100,
       accept_score |-> 0, ocr_enabled |-> TRUE, iou_nms |-> 45] }

ImageSizes == {<<100, 100>>, <<30, 20>>}

\* boxes propose returns: reaching over the image's edges, inside it, in
\* its corner
ProposedBoxes ==
    {<<-10, -10, 50, 50>>, <<0, 0, 40, 45>>, <<10, 20, 30, 40>>,
     <<90, 90, 50, 50>>}

\* what the collaborators return for a region: [D[0] in fiftieths,
\* orb_score, length of the OCR text]
SignalPool ==
    {<<50, 100, 5>>, <<0, 50, 0>>, <<21, 0, 13>>, <<-50, 0, 0>>}

Region(box, sig, feat, feat2, hits, best_i) ==
    [box |-> box, inner |-> sig[1], orb |-> sig[2], txtLen |-> sig[3],
     feat |-> feat, feat2 |-> feat2, hits |-> hits, best_i |-> best_i]

\* the regions: every box with every signal, one box with the other icon
\* too, and one region for each early exit of the loop
RegionPool ==
    {Region(b, sg, TRUE, TRUE, 5, 0) : b \in ProposedBoxes, sg \in SignalPool}
    \cup {Region(<<10, 20, 30, 40>>, sg, TRUE, TRUE, 5, 1) : sg \in SignalPool}
    \cup {Region(<<10, 20, 30, 40>>, <<50, 100, 5>>, f[1], f[2], f[3], f[4]) :
            f \in {<<FALSE, FALSE, 5, 0>>, <<TRUE, FALSE, 5, 0>>,
                    <<TRUE, TRUE, 0, 0>>, <<TRUE, TRUE, 5, -1>>,
                    <<TRUE, TRUE, 5, 2>>}}

ScoreIcons == <<T_AmazonS3, T_Lambda>>

ScoreRows == <<[name |-> T_AmazonS3, aliases |-> W_S3]>>

-----------------------------------------------------------------------------
(* Inputs of the LLM labeler specification *)

LlmConfigs ==
    [mode : {"full_image_llm", "patch_llm"}, conf_threshold : {0, 50, 70}]

LlmImageSizes == ImageSizes \cup {<<200, 100>>}

\* the bbox an object of the model's answer can carry, in tenths: inside
\* the image, negative and fractional, at the far corner with no extent,
\* of three numbers, and the default of a missing bbox
ReportedBoxes ==
    {<<100, 200, 300, 400>>, <<-50, 0, 20000, 15>>, <<10000, 10000, 0, 0>>,
     <<0, 0, 100>>, <<0, 0, 0, 0>>}

ReportedObjects ==
    [name : {T_AmazonS3, T_S3_padded, <<>>},
     bbox : ReportedBoxes,
     confidence : {40, 50, 90, 150}]

\* what cv2.boundingRect can give for the contours of an image: boxes of
\* whole numbers inside it, at least one pixel wide and high
FoundContours(img) ==
    {b \in {<<5, 5, 30, 30>>, <<0, 0, 10, 10>>, <<10, 0, 20, 20>>,
             <<0, 0, 90, 90>>} :
        b[1] + b[3] <= img[1] /\ b[2] + b[4] <= img[2]}

PatchCandidates ==
    {<<>>, <<T_AmazonS3>>, <<T_Lambda>>, <<T_Lambda, T_AmazonS3>>,
     <<<<>>, T_Lambda>>}

-----------------------------------------------------------------------------
(* The state of the parts a specification does not run *)

CanonIdle ==
    /\ cText = <<>> /\ cWhich = "mapper" /\ cOut = <<>> /\ cOut2 = <<>>
    /\ cStage = "idle"

NmsIdle ==
    /\ nDets = <<>> /\ nThr = 0 /\ nOut = <<>> /\ nOut2 = <<>>
    /\ nOrder = <<>> /\ nKeep = <<>> /\ nStage = "idle"
    /\ nRest = <<>> /\ nGone = <<>> /\ nIter = 0

ScoreIdle ==
    /\ sCfg = <<>> /\ sImg = <<>> /\ sIcons = <<>> /\ sDets = <<>>
    /\ sLast = <<>> /\ sStage = "idle"

LlmIdle ==
    /\ lCfg = <<>> /\ lImg = <<>> /\ lDets = <<>> /\ lLast = <<>>
    /\ lStage = "idle"

NoCall == aCall = <<>> /\ aOut = <<>>

ResolveIdle ==
    /\ tRows = <<>> /\ tRules = NoRules /\ tax = FromCsvLlm(<<>>)
    /\ rPipe = "cv" /\ rText = <<>> /\ rScores = <<>>
    /\ rOut = Ret(<<>>, 0, 0) /\ rStage = "idle"
    /\ NoCall

-----------------------------------------------------------------------------
(* The canon specification: canon applied to a text, then to its own result *)

InitCanon ==
    /\ ScoreIdle
    /\ LlmIdle
    /\ NmsIdle
    /\ ResolveIdle
    /\ cText \in CanonInputs
    /\ cWhich \in {"mapper", "cv"}
    /\ cOut = <<>>
    /\ cOut2 = <<>>
    /\ cStage = "start"

CanonCall ==
    /\ cStage = "start"
    /\ cOut' = CanonOf(cWhich, cText)
    /\ cStage' = "called"
    /\ UNCHANGED <<cText, cWhich, cOut2, nmsVars, taxVars, resolveVars,
                   scoreVars, llmVars>>

CanonAgain ==
    /\ cStage = "called"
    /\ cOut2' = CanonOf(cWhich, cOut)
    /\ cStage' = "again"
    /\ UNCHANGED <<cText, cWhich, cOut, nmsVars, taxVars, resolveVars,
                   scoreVars, llmVars>>

NextCanon == CanonCall \/ CanonAgain

SpecCanon == InitCanon /\ [][NextCanon]_vars

-----------------------------------------------------------------------------
(* The taxonomy specification: a Taxonomy is built, then normalize is called *)

InitResolve ==
    /\ ScoreIdle
    /\ LlmIdle
    /\ CanonIdle
    /\ NmsIdle
    /\ tRows \in RowSeqs
    /\ rPipe \in {"cv", "llm"}
    /\ tRules \in (IF rPipe = "cv" THEN RulesPool ELSE {NoRules})
    /\ tax = (IF rPipe = "cv" THEN FromCsv(tRows, tRules) ELSE FromCsvLlm(tRows))
    /\ rText = <<>>
    /\ rScores = <<>>
    /\ rOut = Ret(<<>>, 0, 0)
    /\ rStage = "built"
    /\ NoCall

NormalizeCall ==
    /\ rStage = "built"
    /\ rPipe = "cv"
    /\ \E s \in Queries :
        \E wr \in ScoreFns(Taxonomy_canon(s), DictKeys(tax.alias_to_canonical)) :
        \E wr2 \in ScoreFns(Taxonomy_canon(s),
                            IF tax.alias_to_canonical = <<>> THEN tax.names ELSE <<>>) :
            /\ rText' = s
            /\ rScores' = wr
            /\ rOut' = Normalize(tax, s, wr, wr2)
    /\ rStage' = "called"
    /\ UNCHANGED <<rPipe, aCall, aOut, taxVars, canonVars, nmsVars,
                   scoreVars, llmVars>>

NormalizeLlmCall ==
    /\ rStage = "built"
    /\ rPipe = "llm"
    /\ \E s \in Queries :
        \E wr \in ScoreFns(Lower(Strip(s)), DictKeys(tax.alias_to_canonical)) :
        \E wr2 \in ScoreFns(Lower(Strip(s)),
                            IF tax.alias_to_canonical = <<>> THEN tax.names ELSE <<>>) :
            /\ rText' = s
            /\ rScores' = wr
            /\ rOut' = NormalizeLlm(tax, s, wr, wr2)
    /\ rStage' = "called"
    /\ UNCHANGED <<rPipe, aCall, aOut, taxVars, canonVars, nmsVars,
                   scoreVars, llmVars>>

\* one of the other methods of the aws_cv_clip Taxonomy is called
AccessorCall ==
    /\ rStage \in {"built", "accessed"}
    /\ rPipe = "cv"
    /\ \E m \in TaxonomyMethods :
        \E arg \in AccessorArgs :
            LET r == MethodCall(tax, m, arg)
            IN  /\ aCall' = <<m, arg>>
                /\ aOut' = r.result
                /\ tax' = r.self
    /\ rStage' = "accessed"
    /\ UNCHANGED <<tRows, tRules, rPipe, rText, rScores, rOut,
                   canonVars, nmsVars, scoreVars, llmVars>>

NextResolve == NormalizeCall \/ NormalizeLlmCall \/ AccessorCall

SpecResolve == InitResolve /\ [][NextResolve]_vars

-----------------------------------------------------------------------------
(* The _nms specification: de-duplication of a list, then of its result *)

InitNms ==
    /\ ScoreIdle
    /\ LlmIdle
    /\ CanonIdle
    /\ ResolveIdle
    /\ nDets \in DetectionSeqs
    /\ nThr \in NmsThresholds
    /\ nOut = <<>>
    /\ nOut2 = <<>>
    /\ nOrder = <<>>
    /\ nKeep = <<>>
    /\ nRest = <<>>
    /\ nGone = <<>>
    /\ nIter = 0
    /\ nStage = "start"

NmsCall ==
    /\ nStage = "start"
    /\ \E order \in ArgsortDesc(nDets) :
          /\ nOut' = Deduplicate(nDets, nThr, order)
          /\ nOrder' = order
          /\ nKeep' = Keep(nDets, nThr, order)
    /\ nStage' = "called"
    /\ UNCHANGED <<nDets, nThr, nOut2, nRest, nGone, nIter,
                   canonVars, taxVars, resolveVars, scoreVars, llmVars>>

NmsAgain ==
    /\ nStage = "called"
    /\ \E order \in ArgsortDesc(nOut) :
          /\ Scores(nOut) = Scores(nDets) => order = nOrder
          /\ nOut2' = Deduplicate(nOut, nThr, order)
    /\ nStage' = "again"
    /\ UNCHANGED <<nDets, nThr, nOut, nOrder, nKeep, nRest, nGone, nIter,
                   canonVars, taxVars, resolveVars, scoreVars, llmVars>>

NextNms == NmsCall \/ NmsAgain

SpecNms == InitNms /\ [][NextNms]_vars

-----------------------------------------------------------------------------
(* The _nms loop specification: one call of _nms, pass by pass *)

InitNmsLoop ==
    /\ ScoreIdle
    /\ LlmIdle
    /\ CanonIdle
    /\ ResolveIdle
    /\ nDets \in DetectionSeqs
    /\ nThr \in NmsThresholds
    /\ nOut = <<>>
    /\ nOut2 = <<>>
    /\ nOrder = <<>>
    /\ nKeep = <<>>
    /\ nRest = <<>>
    /\ nGone = <<>>
    /\ nIter = 0
    /\ nStage = "enter"

\* lines 240-253: return [] for no detections, else order and keep are set
NmsEnter ==
    /\ nStage = "enter"
    /\ IF nDets = <<>>
       THEN /\ nOut' = <<>>
            /\ nStage' = "returned"
            /\ UNCHANGED <<nOrder, nRest, nKeep>>
       ELSE /\ \E order \in ArgsortDesc(nDets) :
                  /\ nOrder' = order
                  /\ nRest' = order
            /\ nKeep' = <<>>
            /\ nStage' = "loop"
            /\ UNCHANGED nOut
    /\ UNCHANGED <<nDets, nThr, nOut2, nGone, nIter,
                   canonVars, taxVars, resolveVars, scoreVars, llmVars>>

\* one pass of while order.size > 0 (lines 255-270).  The model stops a
\* loop that has gone one pass beyond the number of detections.
NmsIterate ==
    /\ nStage = "loop"
    /\ nRest # <<>>
    /\ nIter <= Len(nDets)
    /\ nKeep' = Append(nKeep, Head(nRest))
    /\ nRest' = Remaining(nDets, nThr, nRest)
    /\ nGone' = nGone \o Suppressed(nDets, nThr, nRest)
    /\ nIter' = nIter + 1
    /\ UNCHANGED <<nDets, nThr, nOut, nOut2, nOrder, nStage,
                   canonVars, taxVars, resolveVars, scoreVars, llmVars>>

\* the loop is left and line 272 returns the kept detections
NmsReturn ==
    /\ nStage = "loop"
    /\ nRest = <<>>
    /\ nOut' = [k \in 1..Len(nKeep) |-> nDets[nKeep[k]]]
    /\ nStage' = "returned"
    /\ UNCHANGED <<nDets, nThr, nOut2, nOrder, nKeep, nRest, nGone, nIter,
                   canonVars, taxVars, resolveVars, scoreVars, llmVars>>

NextNmsLoop == NmsEnter \/ NmsIterate \/ NmsReturn

SpecNmsLoop == InitNmsLoop /\ [][NextNmsLoop]_vars

\* a call of _nms, once made, runs on: nothing else is scheduled
SpecNmsLoopFair == SpecNmsLoop /\ WF_vars(NextNmsLoop)

-----------------------------------------------------------------------------
(* The analyze_image specification: the regions of an image are scored one
   by one, then the detections are de-duplicated and sorted *)

InitScore ==
    /\ CanonIdle
    /\ NmsIdle
    /\ LlmIdle
    /\ tRows = ScoreRows /\ tRules = NoRules /\ tax = FromCsv(ScoreRows, NoRules)
    /\ rPipe = "cv" /\ rText = <<>> /\ rScores = <<>>
    /\ rOut = Ret(<<>>, 0, 0) /\ rStage = "idle" /\ NoCall
    /\ sCfg \in ScoreConfigs
    /\ sImg \in ImageSizes
    /\ sIcons = ScoreIcons
    /\ sDets = <<>>
    /\ sLast = [n |-> 0, len0 |-> 0,
                reg |-> Region(<<0, 0, 0, 0>>, <<0, 0, 0>>, FALSE, FALSE, 0, 0),
                out |-> NoDetection(FALSE, 0)]
    /\ sStage = "loop"

\* one pass of the loop over boxes
ScoreRegion ==
    /\ sStage = "loop"
    /\ sLast.n < MaxRegions
    /\ \E reg \in RegionPool :
          \E out \in RegionOutcomes(tax, sCfg, sImg, sIcons, reg) :
              /\ sDets' = sDets \o out.det
              /\ sLast' = [n |-> sLast.n + 1, len0 |-> Len(sDets),
                           reg |-> reg, out |-> out]
    /\ UNCHANGED <<sCfg, sImg, sIcons, sStage,
                   canonVars, nmsVars, taxVars, resolveVars, llmVars>>

\* after the loop (lines 355-358)
ScoreFinish ==
    /\ sStage = "loop"
    /\ \E order \in ArgsortDesc(sDets) :
          sDets' = Deduplicate(sDets, sCfg.iou_nms, order)
    /\ sStage' = "done"
    /\ UNCHANGED <<sCfg, sImg, sIcons, sLast,
                   canonVars, nmsVars, taxVars, resolveVars, llmVars>>

NextScore == ScoreRegion \/ ScoreFinish

SpecScore == InitScore /\ [][NextScore]_vars

-----------------------------------------------------------------------------
(* The LLM labeler specification: the objects of a full-image answer, or the
   proposed boxes of an image, are turned into detections one by one *)

InitLlm ==
    /\ CanonIdle
    /\ NmsIdle
    /\ ScoreIdle
    /\ tRows = ScoreRows /\ tRules = NoRules /\ tax = FromCsvLlm(ScoreRows)
    /\ rPipe = "llm" /\ rText = <<>> /\ rScores = <<>>
    /\ rOut = Ret(<<>>, 0, 0) /\ rStage = "idle" /\ NoCall
    /\ lCfg \in LlmConfigs
    /\ lImg \in LlmImageSizes
    /\ lDets = <<>>
    /\ lLast = [n |-> 0, len0 |-> 0, out |-> LlmResult("none", 0, 0, <<>>)]
    /\ lStage = "loop"

\* one pass of the loop of _analyze_full_image
LlmObject ==
    /\ lStage = "loop"
    /\ lCfg.mode = "full_image_llm"
    /\ lLast.n < MaxRegions
    /\ \E obj \in ReportedObjects :
          \E out \in NormalizeDetection(tax, lCfg, lImg, obj) :
              /\ lDets' = lDets \o out.det
              /\ lLast' = [n |-> lLast.n + 1, len0 |-> Len(lDets), out |-> out]
              /\ lStage' = IF out.kind = "raised" THEN "raised" ELSE "loop"
    /\ UNCHANGED <<lCfg, lImg,
                   canonVars, nmsVars, taxVars, resolveVars, scoreVars>>

\* one pass of the loop of _analyze_patch_llm
LlmPatch ==
    /\ lStage = "loop"
    /\ lCfg.mode = "patch_llm"
    /\ lLast.n < MaxRegions
    /\ \E box \in ProposeRegions(lImg, FoundContours(lImg)) :
          \E cands \in PatchCandidates :
              \E out \in PatchOutcomes(tax, box, cands) :
                  /\ lDets' = lDets \o out.det
                  /\ lLast' = [n |-> lLast.n + 1, len0 |-> Len(lDets),
                               out |-> out]
    /\ UNCHANGED <<lCfg, lImg, lStage,
                   canonVars, nmsVars, taxVars, resolveVars, scoreVars>>

\* analyze_image returns the detections as they are
LlmFinish ==
    /\ lStage = "loop"
    /\ lStage' = "done"
    /\ UNCHANGED <<lCfg, lImg, lDets, lLast,
                   canonVars, nmsVars, taxVars, resolveVars, scoreVars>>

NextLlm == LlmObject \/ LlmPatch \/ LlmFinish

SpecLlm == InitLlm /\ [][NextLlm]_vars

\* either pipeline labels an image
InitDetect == InitScore \/ InitLlm

NextDetect == NextScore \/ NextLlm

SpecDetect == InitDetect /\ [][NextDetect]_vars

-----------------------------------------------------------------------------
(* Resolver claims *)

a2c == tax.alias_to_canonical
c2a == tax.canonical_to_aliases

InSeq(x, xs) == \E i \in 1..Len(xs) : xs[i] = x

\* t is a member of some canonical name's alias list
RegisteredAlias(t) == \E i \in 1..Len(c2a) : InSeq(t, c2a[i].v)

\* C1: for every alias registered in a built Taxonomy (every member of a
\* canonical name's alias list), resolve(alias) returns the canonical name
\* the alias was registered under, with confidence 1.0.
C1_AliasExact ==
    rStage = "called" /\ RegisteredAlias(rText) =>
        /\ rOut.conf = 100
        /\ DictHas(c2a, rOut.name)
        /\ InSeq(rText, DictGet(c2a, rOut.name))

\* C2: the cv resolve returns the result of the first tier that matches, in
\* the order (1) empty text, (2) canonical key is an alias key, (3) lower-cased
\* trimmed raw text is an alias key, (4) best fuzzy match over the alias
\* keys, (5) best fuzzy match over the names, (6) blacklist rejection,
\* (7) passthrough; tier 2 wins over tier 3 when both match.
C2_TierOrder ==
    rStage = "called" /\ rPipe = "cv" =>
        LET key == Taxonomy_canon(rText)
            okey == Lower(Strip(rText))
            keys == DictKeys(a2c)
            bestHere(i) ==
                /\ \A j \in 1..Len(keys) : rScores[j] <= rScores[i]
                /\ \A j \in 1..(i - 1) : rScores[j] < rScores[i]
        IN  IF rText = <<>> THEN rOut = Ret(<<>>, 0, 1)
            ELSE IF DictHas(a2c, key) THEN rOut = Ret(DictGet(a2c, key), 100, 2)
            ELSE IF DictHas(a2c, okey) THEN rOut = Ret(DictGet(a2c, okey), 100, 3)
            ELSE IF keys # <<>>
                 THEN \E i \in 1..Len(keys) :
                        /\ bestHere(i)
                        /\ rOut = Ret(DictGet(a2c, keys[i]), rScores[i], 4)
            ELSE IF tax.names # <<>> THEN rOut.tier = 5
            ELSE IF contains_blacklist(tax, rText) THEN rOut = Ret(<<>>, 0, 6)
            ELSE rOut = Ret(rText, 0, 7)

\* tiers 2 and 3 both match and name different canonical services
C2_Witness ==
    /\ rStage = "called" /\ rPipe = "cv" /\ rText # <<>>
    /\ DictHas(a2c, Taxonomy_canon(rText))
    /\ DictHas(a2c, Lower(Strip(rText)))
    /\ DictGet(a2c, Taxonomy_canon(rText)) # DictGet(a2c, Lower(Strip(rText)))
    /\ rOut.name = DictGet(a2c, Taxonomy_canon(rText))

\* C3: resolve is total: for every text, the empty one included, and every
\* Taxonomy it raises nothing and returns a confidence within [0.0, 1.0].
C3_ResolveTotal ==
    rStage = "called" =>
        /\ rOut.tier # Raised.tier
        /\ rOut.conf >= 0
        /\ rOut.conf <= 100

\* a fuzzy match returned with a confidence strictly between 0 and 1
C3_Witness == rStage = "called" /\ rOut.tier = 4 /\ rOut.conf = 90

\* C4: confidence 1.0 is returned for exact alias-key hits only: when neither
\* the canonical key nor the lower-cased trimmed raw text is an alias key,
\* the confidence is below 1.0.
C4_OneOnlyExact ==
    rStage = "called" =>
        (/\ ~DictHas(a2c, Taxonomy_canon(rText))
         /\ ~DictHas(a2c, Lower(Strip(rText)))
         => rOut.conf < 100)

\* resolve("S3 bucket") against canonical "Amazon S3" with alias "S3"
C4_Witness ==
    /\ rStage = "called"
    /\ tRows = <<[name |-> T_AmazonS3, aliases |-> W_S3]>>
    /\ tRules.aliases = <<>>
    /\ rText = T_S3_bucket
    /\ rOut.name = T_AmazonS3
    /\ rOut.conf = 90

\* C5: a text whose canonical form contains a blacklisted substring and that
\* is no exact alias-key hit resolves to ("", 0.0), whatever fuzzy match
\* there is.
C5_BlacklistRejects ==
    rStage = "called" /\ rPipe = "cv" /\ rText # <<>> =>
        (/\ contains_blacklist(tax, rText)
         /\ ExactLookup(tax, rText).tier = 0
         => rOut.name = <<>> /\ rOut.conf = 0)

\* C6: resolve of the empty text returns ("", 0.0) in each pipeline,
\* whatever the taxonomy holds.
C6_EmptyText ==
    rStage = "called" /\ rText = <<>> => rOut.name = <<>> /\ rOut.conf = 0

-----------------------------------------------------------------------------
(* Canon claims *)

DropOf(which) == IF which = "mapper" THEN DROP_WORDS_MAPPER ELSE DROP_WORDS

Chars(t) == {t[i] : i \in 1..Len(t)}

\* C7: canonicalisation is idempotent: canon(canon(s)) = canon(s) for every
\* text s.
C7_CanonIdempotent == cStage = "again" => cOut2 = cOut

\* the parentheses of u match up: never more ")" than "(" so far, equal at
\* the end
RECURSIVE ParenDepthOk(_, _)
ParenDepthOk(u, depth) ==
    IF u = <<>> THEN depth = 0
    ELSE IF Head(u) = "(" THEN ParenDepthOk(Tail(u), depth + 1)
    ELSE IF Head(u) = ")" THEN depth > 0 /\ ParenDepthOk(Tail(u), depth - 1)
    ELSE ParenDepthOk(Tail(u), depth)

\* position i of t stands inside a parenthesised substring "( ... )" of t
InsideParens(t, i) ==
    \E j \in 1..(i - 1) : \E k \in (i + 1)..Len(t) :
        /\ t[j] = "("
        /\ t[k] = ")"
        /\ ParenDepthOk(SubSeq(t, j + 1, k - 1), 0)

\* the characters a canonical form may be made of: those of t that stand
\* outside every parenthesised substring (lower-cased), the space that
\* separators and joins produce, and "and" for an "&" outside
OutsideChars(t) ==
    LET out == {LowerChar(t[i]) : i \in {p \in 1..Len(t) : ~InsideParens(t, p)}}
    IN  out \cup {" "} \cup (IF "&" \in out THEN {"a", "n", "d"} ELSE {})

\* t starts with "amazon " or "aws " in any letter case
HasLeadingPrefix(t) ==
    /\ PrefixWordLen(t) > 0
    /\ Len(t) > PrefixWordLen(t)
    /\ t[PrefixWordLen(t) + 1] = " "

AfterPrefix(t) == SubSeq(t, PrefixWordLen(t) + 2, Len(t))

\* C8: for every text, in any letter case, a leading "amazon " / "aws "
\* prefix is removed (the result is that of the text after the prefix, with
\* no prefix step) and no character that stood inside a parenthesised
\* substring of the text is left in the result.
C8_PrefixAndParensRemoved ==
    cStage = "called" =>
        /\ HasLeadingPrefix(cText) =>
              cOut = CanonTail(SubParens(AfterPrefix(cText)), DropOf(cWhich))
        /\ Chars(cOut) \subseteq OutsideChars(cText)

W_elastic == Lower(W_Elastic)
W_compute == Lower(W_Compute)
W_cloud == Lower(W_Cloud)
W_ec2 == <<"e","c","2">>

\* C9 as stated: canonicalize("Amazon Elastic Compute Cloud (EC2) Service")
\* is "elastic compute cloud ec2".
C9_EC2KeepsAbbreviation ==
    cStage = "called" /\ cText = EC2Text =>
        cOut = Cat(<<W_elastic, SP, W_compute, SP, W_cloud, SP, W_ec2>>)

\* C9 amended: canonicalize("Amazon Elastic Compute Cloud (EC2) Service") is
\* "elastic compute cloud": "(EC2)" goes with the parentheses, "Amazon " as
\* the prefix and "Service" as a stopword.
C9_EC2Canon ==
    cStage = "called" /\ cText = EC2Text =>
        cOut = Cat(<<W_elastic, SP, W_compute, SP, W_cloud>>)

C9_Witness == cStage = "called" /\ cText = EC2Text /\ cOut # <<>>

\* the tokens canon filters: those of the text after the parentheses and the
\* prefix are stripped and the separators replaced
CanonTokens(text) ==
    Tokens(ReplaceSeparators(ReplaceSpecial(StripPrefix(SubParens(text)))))

IsProductWord(w) == Lower(w) \in {W_product, W_products}

HasProductToken(text) ==
    \E i \in 1..Len(CanonTokens(text)) : IsProductWord(CanonTokens(text)[i])

\* what the implementation that was not called returns for the text
OtherCanon == CanonOf(IF cWhich = "mapper" THEN "cv" ELSE "mapper", cText)

\* the words of a canonical form without "product" and "products"
WithoutProductWords(t) ==
    Join(SelectSeq(Tokens(t), LAMBDA w : ~IsProductWord(w)))

\* C29: the standalone canon and Taxonomy.canon return the same string for
\* every text none of whose tokens (after the parentheses and the prefix are
\* stripped and the separators replaced) lower-cases to "product" or
\* "products"; for the other texts Taxonomy.canon returns what canon
\* returns with exactly those tokens dropped.
C29_CanonsDifferByStopwords ==
    cStage = "called" =>
        /\ ~HasProductToken(cText) => cOut = OtherCanon
        /\ cWhich = "cv" => cOut = WithoutProductWords(OtherCanon)
        /\ cWhich = "mapper" => OtherCanon = WithoutProductWords(cOut)

\* Taxonomy.canon of "s3-Products (service)" is "s3", canon's is
\* "s3 products"
C29_Witness ==
    /\ cStage = "called"
    /\ cWhich = "cv"
    /\ cText = ProductsText
    /\ cOut = W_s3
    /\ OtherCanon = Cat(<<W_s3, SP, W_products>>)

-----------------------------------------------------------------------------
(* De-duplication claims *)

\* C10: de-duplication is idempotent: de-duplicating its own result gives
\* the same detections in the same order, equal confidences included.
C10_DedupIdempotent == nStage = "again" => nOut2 = nOut

\* iou > iou_threshold between two detections, in exact arithmetic
Overlapping(d, e, thr) ==
    LET inter == Inter(d.bbox, e.bbox)
    IN  100 * inter > thr * (BoxArea(d.bbox) + BoxArea(e.bbox) - inter)

\* the clusters of the input: two or more detections, every pair overlapping
Clusters ==
    {S \in SUBSET (1..Len(nDets)) :
        /\ Cardinality(S) >= 2
        /\ \A i, j \in S : i # j => Overlapping(nDets[i], nDets[j], nThr)}

\* the clusters no further detection can join
MaximalClusters ==
    {S \in Clusters : \A T \in Clusters : S \subseteq T => S = T}

Survivors(S) == {i \in S : \E k \in 1..Len(nKeep) : nKeep[k] = i}

HighestOf(S) ==
    {i \in S : \A j \in S : nDets[i].confidence >= nDets[j].confidence}

\* no detection outside S overlaps a member of S
Isolated(S) ==
    \A i \in S : \A j \in (1..Len(nDets)) \ S :
        ~Overlapping(nDets[i], nDets[j], nThr)

\* C11: of any cluster of mutually overlapping detections exactly one member
\* survives de-duplication and it is the cluster's highest-confidence
\* member, whatever else the input holds (stated of the maximal clusters:
\* a part of a larger cluster loses all its members to the larger one's
\* highest).
C11_ClusterMaxSurvives ==
    nStage # "start" =>
        \A S \in MaximalClusters :
            /\ Cardinality(Survivors(S)) = 1
            /\ Survivors(S) \subseteq HighestOf(S)

\* C11 as amended: the same of any cluster that no detection outside it
\* overlaps.
C11_IsolatedClusterMaxSurvives ==
    nStage # "start" =>
        \A S \in Clusters :
            Isolated(S) =>
                /\ Cardinality(Survivors(S)) = 1
                /\ Survivors(S) \subseteq HighestOf(S)

\* an isolated cluster of different confidences next to a third detection
C11_Witness ==
    /\ nStage = "called"
    /\ Len(nDets) = 3
    /\ \E S \in Clusters :
          /\ Isolated(S)
          /\ Cardinality(S) = 2
          /\ HighestOf(S) # S
          /\ Survivors(S) = HighestOf(S)

NoOverlap ==
    \A i, j \in 1..Len(nDets) :
        i # j => ~Overlapping(nDets[i], nDets[j], nThr)

ConfDescending(dets) ==
    \A k \in 1..(Len(dets) - 1) : dets[k].confidence >= dets[k + 1].confidence

\* out is dets in the order of the indices keep, each index once
Reordering(dets, keep, out) ==
    /\ Len(keep) = Len(dets)
    /\ Len(out) = Len(dets)
    /\ \A i \in 1..Len(dets) : \E k \in 1..Len(keep) : keep[k] = i
    /\ \A k \in 1..Len(keep) : out[k] = dets[keep[k]]

\* C12: when no two detections of D have IoU > threshold, de-duplication
\* returns every detection of D, only reordered by confidence.
C12_NoOverlapKeepsAll ==
    (nStage # "start" /\ NoOverlap) =>
        /\ Reordering(nDets, nKeep, nOut)
        /\ ConfDescending(nOut)

\* three detections, none overlapping, the highest confidence given last
C12_Witness ==
    /\ nStage = "called"
    /\ NoOverlap
    /\ nThr = 45
    /\ Len(nDets) = 3
    /\ nDets[1].confidence < nDets[3].confidence
    /\ nDets[2].confidence < nDets[3].confidence
    /\ Len(nOut) = 3
    /\ nOut[1] = nDets[3]

-----------------------------------------------------------------------------
(* Output order *)

\* the returned detections are the kept ones, in the order of keep
OutIsKept ==
    /\ Len(nOut) = Len(nKeep)
    /\ \A k \in 1..Len(nKeep) : nOut[k] = nDets[nKeep[k]]

\* equal confidences come out in the order they were put in (of two
\* detections that differ: equal ones cannot be told apart in the output)
TiesInInsertionOrder ==
    \A k, l \in 1..Len(nKeep) :
        (/\ k < l
         /\ nDets[nKeep[k]].confidence = nDets[nKeep[l]].confidence
         /\ nDets[nKeep[k]] # nDets[nKeep[l]])
            => nKeep[k] < nKeep[l]

\* equal confidences come out in the order argsort()[::-1] put them in
TiesInArgsortOrder ==
    \A k, l \in 1..Len(nKeep) :
        k < l => \E a, b \in 1..Len(nOrder) :
                    a < b /\ nOrder[a] = nKeep[k] /\ nOrder[b] = nKeep[l]

\* C13: the detections returned for an image are ordered by confidence
\* descending, those of equal confidence in their original insertion order.
C13_OrderedTiesByInsertion ==
    nStage # "start" =>
        /\ OutIsKept
        /\ ConfDescending(nOut)
        /\ TiesInInsertionOrder

\* C13 as amended: ordered by confidence descending, those of equal
\* confidence in the order the reversed argsort of the confidences gave.
C13_OrderedTiesByArgsort ==
    nStage # "start" =>
        /\ OutIsKept
        /\ ConfDescending(nOut)
        /\ TiesInArgsortOrder

\* two survivors of equal confidence behind one of higher confidence that
\* was inserted last
C13_Witness ==
    /\ nStage = "called"
    /\ Len(nDets) = 3
    /\ Len(nOut) = 3
    /\ nDets[1].confidence = nDets[2].confidence
    /\ nDets[3].confidence > nDets[1].confidence
    /\ nDets[1] # nDets[2]

-----------------------------------------------------------------------------
(* Scoring claims *)

\* the loop has just scored a region
JustScored == sStage = "loop" /\ sLast.n > 0 /\ sLast.out.scored

\* a Detection was produced for the region: built and appended
Produced ==
    /\ sLast.out.det # <<>>
    /\ Len(sDets) = sLast.len0 + 1
    /\ sDets[Len(sDets)] = sLast.out.det[1]

NotProduced == sLast.out.det = <<>> /\ Len(sDets) = sLast.len0

\* C14: for a scored region a Detection is produced if and only if
\* raw_score = clip_w*clip + orb_w*orb + ocr_w*ocr is at least
\* accept_threshold, whatever the taxonomy confidence and the blended
\* confidence are.
C14_AcceptOnRawScore ==
    JustScored =>
        /\ sLast.out.final_score >= sCfg.accept_score * 100 => Produced
        /\ sLast.out.final_score < sCfg.accept_score * 100 => NotProduced

\* a region whose raw score is exactly the threshold is accepted with a
\* blended confidence below the threshold
C14_Witness ==
    /\ JustScored
    /\ sLast.out.final_score = sCfg.accept_score * 100
    /\ sCfg.accept_score > 0
    /\ Produced
    /\ sLast.out.det[1].confidence < sCfg.accept_score * 100

\* C15: the confidence of every produced Detection is
\* raw_score * 0.7 + taxonomy_confidence * 0.3 rounded to 4 decimal places,
\* taxonomy_confidence being what resolving the candidate label returned.
C15_BlendedConfidence ==
    (JustScored /\ Produced) =>
        LET d == sLast.out.det[1]
            exact == 7 * sLast.out.final_score + 300 * sLast.out.nsc
        IN  /\ 10 * d.confidence - exact <= 5
            /\ exact - 10 * d.confidence <= 5
            /\ \E n \in NormalizeOutcomes(tax,
                              IconAt(sIcons, sLast.reg.best_i)) :
                  n.conf = sLast.out.nsc /\ n.name = d.label

\* a fuzzy label (taxonomy confidence 0.9) on a raw score of 0.3905: the
\* blend 0.54335 is half way between 0.5433 and 0.5434
C15_Witness ==
    /\ JustScored
    /\ Produced
    /\ sLast.out.nsc = 90
    /\ sLast.out.final_score = 3905
    /\ sLast.out.det[1].confidence \in {5433, 5434}

\* C16: every Detection the scorer produces has its confidence within
\* [0.0, 1.0], for signals in [0,1] (the OCR bonus 0 or 0.2), a taxonomy
\* confidence in [0,1] and weights that are not negative and sum to 1.0.
C16_ConfidenceInUnitRange ==
    \A k \in 1..Len(sDets) :
        sDets[k].confidence >= 0 /\ sDets[k].confidence <= 10000

\* both ends: a Detection of confidence 1.0 and one of confidence 0.0
C16_Witness ==
    /\ sStage = "loop"
    /\ Len(sDets) = 2
    /\ sDets[1].confidence = 10000
    /\ sDets[2].confidence < 10000

-----------------------------------------------------------------------------
(* Claims about the detections of both pipelines *)

\* the acceptance threshold of the pipeline that runs, in the unit of its
\* confidences
AcceptThreshold ==
    IF sStage # "idle" THEN sCfg.accept_score * 100
    ELSE IF lCfg.mode = "full_image_llm" THEN lCfg.conf_threshold
    ELSE PATCH_ACCEPT

\* the detections of the pipeline that runs
AllDetections == IF sStage # "idle" THEN sDets ELSE lDets

\* C17: no Detection that reaches the de-duplication or the output has a
\* confidence below the acceptance threshold.
C17_ConfidenceAboveThreshold ==
    \A k \in 1..Len(AllDetections) :
        AllDetections[k].confidence >= AcceptThreshold

\* C17 as amended: what is held against the threshold is the score before
\* the taxonomy confidence comes in (raw_score; the confidence the LLM
\* reported); the confidence of a Detection can be lower, in the CV pipeline
\* down to 0.7 of the threshold, in the patches of the LLM pipeline not at
\* all.
C17_RawScoreAboveThreshold ==
    /\ (JustScored /\ sLast.out.det # <<>>) =>
            sLast.out.final_score >= AcceptThreshold
    /\ sStage # "idle" =>
            \A k \in 1..Len(sDets) :
                10 * sDets[k].confidence + 5 >= 7 * AcceptThreshold
    /\ (lStage = "loop" /\ lLast.out.det # <<>>) =>
            lLast.out.reported >= AcceptThreshold
    /\ (lStage # "idle" /\ lCfg.mode = "patch_llm") =>
            \A k \in 1..Len(lDets) : lDets[k].confidence >= AcceptThreshold

\* the image's detections have been de-duplicated and one of them has a
\* confidence below the threshold its raw score passed
C17_Witness ==
    /\ sStage = "done"
    /\ sCfg.accept_score = 50
    /\ \E k \in 1..Len(sDets) : sDets[k].confidence = 3500

NonNegativeInt(v) == v \in Int /\ v >= 0
PositiveInt(v) == v \in Int /\ v > 0

\* C18: every Detection of either pipeline has a bbox (x, y, width, height)
\* of integers with x >= 0, y >= 0, width > 0 and height > 0.
C18_BboxWellFormed ==
    \A k \in 1..Len(AllDetections) :
        LET b == AllDetections[k].bbox
        IN  /\ Len(b) = 4
            /\ NonNegativeInt(b[1]) /\ NonNegativeInt(b[2])
            /\ PositiveInt(b[3]) /\ PositiveInt(b[4])

\* the LLM reported a box of no extent at the far corner of the image, and
\* the Detection made of it is in the output
C18_Witness ==
    /\ lStage = "done"
    /\ \E k \in 1..Len(lDets) : lDets[k].bbox = <<lImg[1], lImg[2], 1, 1>>

-----------------------------------------------------------------------------
(* Claims about the Taxonomy as a whole *)

\* C19: the Taxonomy is never changed after it is built: whatever is called
\* on it, canonical_to_aliases, alias_to_canonical, names, group_mapping
\* and blacklist stay as they are.
C19_TaxonomyReadOnly ==
    [][/\ tax'.canonical_to_aliases = tax.canonical_to_aliases
       /\ tax'.alias_to_canonical = tax.alias_to_canonical
       /\ tax'.names = tax.names
       /\ rPipe = "cv" => /\ tax'.group_mapping = tax.group_mapping
                          /\ tax'.blacklist = tax.blacklist]_vars

\* get_aliases was asked for a name that is no canonical name and returned
\* the empty list
C19_Witness ==
    /\ rStage = "accessed"
    /\ aCall = <<"get_aliases", T_S3_logo>>
    /\ aOut = <<>>
    /\ tax.names # <<>>
    /\ ~DictHas(tax.canonical_to_aliases, T_S3_logo)

\* the rows that have a canonical name
WellFormedRows(rows) == SelectSeq(rows, LAMBDA r : r.name # NaN)

\* C20: a row whose canonical-name cell is missing (NaN) is skipped: it adds
\* no canonical service and no alias key, so the Taxonomy is the one built
\* of the other rows.
C20_MalformedRowsSkipped ==
    rStage \in {"called", "accessed"} =>
        /\ tax.names = (IF rPipe = "cv"
                        THEN FromCsv(WellFormedRows(tRows), tRules).names
                        ELSE FromCsvLlm(WellFormedRows(tRows)).names)
        /\ tax.alias_to_canonical =
              (IF rPipe = "cv"
               THEN FromCsv(WellFormedRows(tRows), tRules).alias_to_canonical
               ELSE FromCsvLlm(WellFormedRows(tRows)).alias_to_canonical)

-----------------------------------------------------------------------------
(* Claims about the index from_csv builds *)

Built == rStage \in {"called", "accessed"}

\* C21: after build, for every canonical name c and every alias a of c's
\* alias set, alias_to_canonical[lower(a)] is c (no alias key is claimed by
\* two canonical services), and c is a member of its own alias set.
C21_AliasMapsToOwner ==
    Built =>
        \A i \in 1..Len(c2a) :
            /\ \A m \in 1..Len(c2a[i].v) :
                  /\ DictHas(a2c, Lower(c2a[i].v[m]))
                  /\ DictGet(a2c, Lower(c2a[i].v[m])) = c2a[i].k
            /\ InSeq(c2a[i].k, c2a[i].v)

\* C22: after build, every canonical name of the index, one created by an
\* alias rule included, is found under its own lower-cased text:
\* alias_to_canonical[lower(c)] is c for every c of names.
C22_NameFoundByOwnText ==
    Built =>
        \A i \in 1..Len(tax.names) :
            /\ DictHas(a2c, Lower(tax.names[i]))
            /\ DictGet(a2c, Lower(tax.names[i])) = tax.names[i]

\* C27: after build, every key k of alias_to_canonical is the lower-cased
\* form of a member of canonical_to_aliases[alias_to_canonical[k]], also
\* when one canonical name stands in more than one row.
C27_KeyBackedByAliasSet ==
    Built =>
        \A j \in 1..Len(a2c) :
            /\ DictHas(c2a, a2c[j].v)
            /\ \E m \in 1..Len(DictGet(c2a, a2c[j].v)) :
                  Lower(DictGet(c2a, a2c[j].v)[m]) = a2c[j].k

\* C28: with at least one alias key in the index, resolve of a non-empty
\* text returns at tier 2, 3 or 4 and the name it returns is a registered
\* canonical name; tiers 5, 6 and 7 are reached only when the alias table is
\* empty, and tier 5 never produces a match.
C28_AliasTableDecidesTier ==
    rStage = "called" =>
        /\ (a2c # <<>> /\ rText # <<>>) =>
              /\ rOut.tier \in {2, 3, 4}
              /\ InSeq(rOut.name, tax.names)
        /\ rOut.tier \in {5, 6, 7} => a2c = <<>>
        /\ rOut.tier # 5

\* a blacklisted text, no alias key, comes back from the fuzzy match over a
\* non-empty alias table
C28_Witness ==
    /\ rStage = "called"
    /\ rPipe = "cv"
    /\ a2c # <<>>
    /\ rText = T_logo
    /\ tax.blacklist = <<T_logo>>
    /\ rOut.tier = 4
    /\ InSeq(rOut.name, tax.names)

-----------------------------------------------------------------------------
(* Claims about the greedy suppression *)

\* no two of the detections have iou > thr
NoPairOverlaps(dets, thr) ==
    \A k, l \in 1..Len(dets) :
        k # l => ~Overlapping(dets[k], dets[l], thr)

Kept(i) == \E k \in 1..Len(nKeep) : nKeep[k] = i

\* C24: a detection is absent from the de-duplicated output only if its IoU
\* with some surviving detection of greater-or-equal confidence strictly
\* exceeds iou_threshold; a detection whose IoU with every surviving
\* detection is at most the threshold (exactly equal included) is kept.
C24_SuppressedOnlyByStrongerOverlap ==
    nStage # "start" =>
        \A i \in 1..Len(nDets) :
            /\ ~Kept(i) =>
                  \E j \in 1..Len(nDets) :
                      /\ Kept(j)
                      /\ nDets[j].confidence >= nDets[i].confidence
                      /\ Overlapping(nDets[j], nDets[i], nThr)
            /\ (\A j \in 1..Len(nDets) :
                   (Kept(j) /\ j # i) => ~Overlapping(nDets[j], nDets[i], nThr))
                  => Kept(i)

\* at threshold 0 one detection is suppressed and one whose IoU with the
\* survivor is exactly 0 is kept
C24_Witness ==
    /\ nStage = "called"
    /\ nThr = 0
    /\ Len(nDets) = 3
    /\ Len(nKeep) = 2
    /\ Inter(nDets[nKeep[1]].bbox, nDets[nKeep[2]].bbox) = 0

\* out is a sub-collection of dets: its elements are elements of dets, each
\* taken from a place of its own
SubCollection(out, dets) ==
    \E f \in [1..Len(out) -> 1..Len(dets)] :
        /\ \A k, l \in 1..Len(out) : f[k] = f[l] => k = l
        /\ \A k \in 1..Len(out) : out[k] = dets[f[k]]

\* C25: after deduplicate(D, t) every pair of distinct output detections
\* has IoU <= t, and the output is a sub-collection of D: each output
\* element is an unmodified input detection and none appears more often
\* than in D.
C25_NoOverlapLeft ==
    nStage # "start" =>
        /\ NoPairOverlaps(nOut, nThr)
        /\ SubCollection(nOut, nDets)

\* two of three detections overlapped beyond the threshold and two
\* different detections are returned
C25_Witness ==
    /\ nStage = "called"
    /\ nThr = 45
    /\ Len(nDets) = 3
    /\ Len(nOut) = 2
    /\ nOut[1] # nOut[2]
    /\ ~NoOverlap

\* every index of the input is in exactly one of keep, the suppressed and
\* order, and in that one once
EachIndexOnce ==
    LET all == nKeep \o nGone \o nRest
    IN  /\ Len(all) = Len(nDets)
        /\ \A i \in 1..Len(nDets) : \E k \in 1..Len(all) : all[k] = i

LoopBounded ==
    /\ nIter <= Len(nDets)
    /\ nStage = "loop" =>
          /\ Len(nRest) + nIter <= Len(nDets)
          /\ EachIndexOnce
    /\ nStage = "returned" =>
          /\ nRest = <<>>
          /\ EachIndexOnce
          /\ Len(nOut) = Len(nKeep)
    /\ nDets = <<>> => (nStage # "loop" /\ nIter = 0 /\ nOut = <<>>)

\* C26: the loop of _nms terminates for every finite input: each pass takes
\* at least the picked detection out of order, so after at most |D| passes
\* order is empty and every input detection has been kept or suppressed
\* exactly once; an empty input returns an empty result without entering
\* the loop.
C26_NmsTerminates == [](LoopBounded) /\ <>(nStage = "returned")

\* three detections, two passes: one detection was suppressed
C26_Witness ==
    /\ nStage = "returned"
    /\ Len(nDets) = 3
    /\ nIter = 2
    /\ Len(nGone) = 1
    /\ Len(nOut) = 2

-----------------------------------------------------------------------------
(* Claims about de-duplication within analyze_image *)

\* the iou_threshold _nms defaults to, in hundredths
IOU_DEFAULT == 45

\* C23: what analyze_image of either pipeline returns for an image is the
\* de-duplicated result of the detections of all its regions: no two
\* returned detections have IoU above the configured threshold (for the
\* LLM labeler, which configures none, the default threshold).
C23_ReturnedDeduplicated ==
    /\ sStage = "done" => NoPairOverlaps(sDets, sCfg.iou_nms)
    /\ lStage = "done" => NoPairOverlaps(lDets, IOU_DEFAULT)

-----------------------------------------------------------------------------
(* Claims about the LLM labeler's boxes *)

\* C30: in the full-image LLM pipeline the bbox of every normalized
\* detection lies inside the image, whatever box the LLM reported:
\* 0 <= x, 0 <= y, x + w <= image_width and y + h <= image_height.
C30_LlmBboxInsideImage ==
    (lStage # "idle" /\ lCfg.mode = "full_image_llm") =>
        \A k \in 1..Len(lDets) :
            LET b == lDets[k].bbox
            IN  /\ 0 <= b[1]
                /\ 0 <= b[2]
                /\ b[1] + b[3] <= lImg[1]
                /\ b[2] + b[4] <= lImg[2]

====
